---- MODULE Spec2Model ----
(***************************************************************************)
(* Financial consolidation platform: the relational store (company         *)
(* accounts, master accounts, account mappings, transactions, consolidation*)
(* runs), the request handlers that write it (transaction import, mapping  *)
(* approval, manual mapping and transaction creation), the consolidation   *)
(* engine and the maintenance scripts that rewrite stored runs.            *)
(*                                                                         *)
(* Amounts are whole currency units.  A nullable column holds <<>> for     *)
(* NULL and <<v>> for the value v.  Row ids are the row's position in its  *)
(* table; the id 0 stands for None.                                        *)
(***************************************************************************)
EXTENDS Integers, Sequences, FiniteSets, TLC

\* ------------------------------------------------------------------ bounds
MaxAccounts == 2
MaxMasters == 3
MaxMappings == 2
MaxTxns == 2
MaxRuns == 2
MaxRows == 2
MaxDecisions == 2

MaxWords == 2

MaxSuggested == 2

MaxUnmapped == 1

MaxGridRows == 4

MaxColumns == 3

MaxOracleEntries == 1

\* ------------------------------------------------------- program constants
\* transactions.py:157, the auto-mapping threshold, in hundredths
AutoMapThreshold == 80

\* ------------------------------------------------------------ fixed world
None == <<>>
Some(v) == <<v>>
NoId == 0

AccountType == {"asset", "liability", "equity", "revenue", "expense"}
ConsolidationStatus == {"pending", "processing", "completed", "failed"}

\* The companies of the one organization; both are active.
Companies == {"c1", "c2"}
CompanyIsActive(c) == TRUE

\* Fiscal periods (months) that occur in the model; the year is fixed.
Periods == {1, 2}

\* Account identifiers of imported files, as character sequences.
AccountNumbers == {<<"1", "0">>, <<"2", "0">>}

\* Amounts a caller can put into a debit or credit field.
Amounts == {-50, 0, 100}

\* Confidence values (hundredths) the matching oracle answers with.
Confidences == {50, 90}

\* The exception text of a failed database call.
DbError == "OperationalError"

VARIABLES
    company_accounts,   \* table company_accounts
    master_accounts,    \* table master_accounts
    account_mappings,   \* table account_mappings
    transactions,       \* table transactions
    runs,               \* table consolidation_runs
    pc,                 \* position of the run_consolidation call in flight
    run,                \* its session object for the run row
    run_id,             \* id of that row
    txns,               \* the transactions it loaded
    balances,           \* its balances map
    error,              \* the exception it is handling
    importing,          \* the import_transactions call in flight, after its lookup
    response            \* what the last finished request answered

db == <<company_accounts, master_accounts, account_mappings, transactions>>
engine == <<pc, run, run_id, txns, balances, error>>
vars == <<company_accounts, master_accounts, account_mappings, transactions,
          runs, pc, run, run_id, txns, balances, error, importing, response>>

\* ---------------------------------------------------------------- helpers
Abs(x) == IF x < 0 THEN -x ELSE x

RECURSIVE SumOver(_, _)
SumOver(S, f) ==
    IF S = {} THEN 0
    ELSE LET x == CHOOSE y \in S : TRUE IN f[x] + SumOver(S \ {x}, f)

Ids(table) == 1..Len(table)

\* The rows of the query at consolidation_engine.py:80-82, before .first(),
\* on a mappings table: the active mappings of a company account.
ActiveIn(mappings, account_id) ==
    {m \in Ids(mappings) :
        /\ mappings[m].company_account_id = account_id
        /\ mappings[m].is_active}

ActiveMappings(account_id) == ActiveIn(account_mappings, account_id)

\* The master accounts of an account type (mapping_service.py:40-44).
SameTypeMasters(account_type) ==
    {m \in Ids(master_accounts) : master_accounts[m].account_type = account_type}

\* ------------------------------------------------ POST /mappings (manual)
NewMapping(account_id, master_id, confidence, source, verified) ==
    [company_account_id |-> account_id, master_account_id |-> master_id,
     confidence_score |-> confidence, mapping_source |-> source,
     is_active |-> TRUE, is_verified |-> verified]

\* The row create_mapping builds (mappings.py:48): the model's defaults
\* make it active, source "manual", unverified.
CreateMappingRow(account_id, master_id, confidence) ==
    NewMapping(account_id, master_id, confidence, "manual", FALSE)

\* mappings.py:46-52.  The foreign keys of account_mappings make the insert
\* fail for an id that names no row.
CreateMapping(account_id, master_id) ==
    /\ Len(account_mappings) < MaxMappings
    /\ account_id \in Ids(company_accounts)
    /\ master_id \in Ids(master_accounts)
    /\ account_mappings' =
           Append(account_mappings, CreateMappingRow(account_id, master_id, None))
    /\ response' = [kind |-> "mapping"]
    /\ UNCHANGED <<company_accounts, master_accounts, transactions, runs, engine, importing>>

\* ------------------------------------------- POST /mappings/approve
\* The decisions a request can carry: the three actions with their data
\* present or missing, an unknown action, an unknown child account, an
\* unknown master account and a master account type that is no AccountType.
NewMasterTypes == {"revenue", "bogus"}

Decisions ==
    [child_account_id : Ids(company_accounts) \cup {MaxAccounts + 1},
     action : {"accept", "select_different"},
     master_account_id : (0..Len(master_accounts)) \cup {MaxMasters + 1},
     new_master_account : {None}]
    \cup
    [child_account_id : Ids(company_accounts),
     action : {"create_new"},
     master_account_id : {NoId},
     new_master_account : {None} \cup {Some(t) : t \in NewMasterTypes}]
    \cup
    [child_account_id : Ids(company_accounts),
     action : {"reject"},
     master_account_id : {NoId},
     new_master_account : {None}]

\* The row approve_mappings builds for an applied decision
\* (transactions.py:381-389).
ApprovedMappingRow(account_id, master_id) ==
    NewMapping(account_id, master_id, None, "user_manual", TRUE)

\* One iteration of the loop at transactions.py:298-399 on the session
\* state st = [masters, mappings, mappings_created, master_accounts_created,
\* errors], errors being the length of the errors list.
ApplyDecision(st, d) ==
    LET err == [st EXCEPT !.errors = @ + 1]
        map(masters, mid, mcreated) ==
            [st EXCEPT !.masters = masters,
                       !.mappings = Append(@, ApprovedMappingRow(d.child_account_id, mid)),
                       !.mappings_created = @ + 1,
                       !.master_accounts_created = @ + mcreated]
    IN  IF d.child_account_id \notin Ids(company_accounts) THEN err
        ELSE IF d.action \in {"accept", "select_different"} THEN
            IF d.master_account_id = NoId THEN err
            ELSE IF d.master_account_id \notin Ids(st.masters) THEN err
            ELSE map(st.masters, d.master_account_id, 0)
        ELSE IF d.action = "create_new" THEN
            IF d.new_master_account = None THEN err
            ELSE IF d.new_master_account[1] \notin AccountType THEN err
            ELSE map(Append(st.masters, [account_type |-> d.new_master_account[1]]),
                     Len(st.masters) + 1, 1)
        ELSE err

RECURSIVE ApplyDecisions(_, _)
ApplyDecisions(st, ds) ==
    IF ds = <<>> THEN st
    ELSE ApplyDecisions(ApplyDecision(st, Head(ds)), Tail(ds))

\* transactions.py:278-408: every decision is applied to the session and
\* one commit stores the result.
ApproveMappings(ds) ==
    LET st == ApplyDecisions([masters |-> master_accounts,
                              mappings |-> account_mappings,
                              mappings_created |-> 0,
                              master_accounts_created |-> 0,
                              errors |-> 0], ds)
    IN  /\ Len(st.mappings) <= MaxMappings
        /\ Len(st.masters) <= MaxMasters
        /\ master_accounts' = st.masters
        /\ account_mappings' = st.mappings
        /\ response' = [kind |-> "approval",
                        mappings_created |-> st.mappings_created,
                        master_accounts_created |-> st.master_accounts_created,
                        errors |-> st.errors]
        /\ UNCHANGED <<company_accounts, transactions, runs, engine, importing>>

\* ------------------------------------------------- POST /transactions/import
\* A parsed file (the DataFrame parse_file returns): its canonical columns
\* and its rows.  A cell is None (NaN) or Some(value); a date cell holds the
\* month of its date.
Layouts ==
    {{"date", "account_number", "debit", "credit"},
     {"date", "account_number", "amount"},
     {"account_number", "amount"}}

Row(date, account_number, debit, credit, amount) ==
    [date |-> date, account_number |-> account_number,
     debit |-> debit, credit |-> credit, amount |-> amount]

\* Rows of a debit/credit file: the well-formed ones and one row for each
\* defect validate_dataframe looks for.
DebitCreditRows ==
    {Row(Some(1), Some(n), dc[1], dc[2], None) :
        n \in AccountNumbers, dc \in {<<Some(100), None>>, <<None, Some(100)>>}}
    \cup
    {Row(None, Some(<<"1", "0">>), Some(100), None, None),
     Row(Some(1), None, Some(100), None, None),
     Row(Some(1), Some(<<"1", "0">>), None, None, None),
     Row(Some(1), Some(<<"1", "0">>), Some(100), Some(100), None),
     Row(Some(1), Some(<<"1", "0">>), Some(-50), None, None)}

\* Rows of a file with one signed amount column.
AmountRows ==
    {Row(Some(1), Some(n), None, None, Some(a)) :
        n \in AccountNumbers, a \in Amounts}
    \cup
    {Row(None, Some(<<"1", "0">>), None, None, Some(100)),
     Row(Some(1), None, None, None, Some(100))}

\* Rows of a file with no date column.
UndatedRows ==
    {Row(None, Some(n), None, None, Some(100)) : n \in AccountNumbers}

RowsOf(columns) ==
    IF "debit" \in columns THEN DebitCreditRows
    ELSE IF "date" \in columns THEN AmountRows
    ELSE UndatedRows

Files ==
    UNION {[columns : {cols}, rows : UNION {[1..n -> RowsOf(cols)] : n \in 1..MaxRows}] :
            cols \in Layouts}

\* float(x) if not NaN else 0 (import_service.py:750-751, 808-809, 812).
NumberOrZero(cell) == IF cell = None THEN 0 ELSE cell[1]

\* import_service.py:730-754: the errors validate_dataframe reports for one
\* row, as the set of the error texts' fields.
RowErrors(columns, row) ==
    (IF "date" \in columns /\ row.date = None THEN {"date"} ELSE {})
    \cup
    (IF "account_number" \in columns /\ row.account_number = None
        THEN {"account_number"} ELSE {})
    \cup
    (IF "debit" \in columns /\ "credit" \in columns
        THEN LET debit == NumberOrZero(row.debit)
                 credit == NumberOrZero(row.credit)
             IN  (IF debit < 0 \/ credit < 0 THEN {"negative"} ELSE {})
                 \cup (IF debit = 0 /\ credit = 0 THEN {"zero"} ELSE {})
                 \cup (IF debit > 0 /\ credit > 0 THEN {"both"} ELSE {})
        ELSE {})

RECURSIVE CountRowErrors(_, _)
CountRowErrors(columns, rows) ==
    IF rows = <<>> THEN 0
    ELSE Cardinality(RowErrors(columns, Head(rows)))
         + CountRowErrors(columns, Tail(rows))

\* import_service.py:707-756: the number of errors validate_dataframe
\* returns; an empty frame is one error.
validate_dataframe(columns, rows) ==
    IF Len(rows) = 0 THEN 1 ELSE CountRowErrors(columns, rows)

\* import_service.py:854-898.  An identifier is a sequence of tokens: the
\* characters of a number ("1", "0") or the lowercase words of a name
\* ("accounts", "payable"); the first character is a digit when the first
\* token is one, and a term occurs in a name when it is one of its words (no
\* word used here contains a term without being it).
infer_account_type_from_number(account_number) ==
    LET Occurs(terms) == \E i \in 1..Len(account_number) : account_number[i] \in terms
    IN  IF account_number = <<>> THEN "expense"
        ELSE LET first_char == account_number[1]
             IN  IF first_char \in {"0", "1", "2", "3", "4", "5", "6", "7", "8", "9"}
                    THEN IF first_char = "1" THEN "asset"
                         ELSE IF first_char = "2" THEN "liability"
                         ELSE IF first_char = "3" THEN "equity"
                         ELSE IF first_char = "4" THEN "revenue"
                         ELSE "expense"
                 ELSE IF Occurs({"cash", "receivable", "inventory", "asset",
                                 "equipment", "building"}) THEN "asset"
                 ELSE IF Occurs({"payable", "liability", "loan", "debt"}) THEN "liability"
                 ELSE IF Occurs({"equity", "capital", "retained"}) THEN "equity"
                 ELSE IF Occurs({"revenue", "sales", "income", "fees"}) THEN "revenue"
                 ELSE "expense"

\* transactions.py:99-102: the id account_lookup holds for a number.
AccountLookup(accounts, company_id, account_number) ==
    LET ids == {a \in Ids(accounts) :
                   /\ accounts[a].company_id = company_id
                   /\ accounts[a].account_number = account_number}
    IN  IF ids = {} THEN NoId ELSE CHOOSE a \in ids : \A b \in ids : b <= a

\* transactions.py:112: df['account_number'].dropna().unique(), in order of
\* first appearance.
RECURSIVE UniqueAccounts(_, _)
UniqueAccounts(rows, seen) ==
    IF rows = <<>> THEN <<>>
    ELSE LET cell == Head(rows).account_number
         IN  IF cell = None \/ cell[1] \in seen
                THEN UniqueAccounts(Tail(rows), seen)
                ELSE <<cell[1]>> \o UniqueAccounts(Tail(rows), seen \cup {cell[1]})

\* The oracle behind find_master_account_match: it is absent or fails, or it
\* answers with a master account of the type or null and a confidence.
OracleFails == "fails"

OracleOutcomes(account_type) ==
    {OracleFails} \cup ((SameTypeMasters(account_type) \cup {NoId}) \X Confidences)

\* mapping_service.py:38-129: (None, 0.0) when the type has no master
\* account, and when the oracle is absent or fails (both except clauses);
\* otherwise the oracle's answer.
find_master_account_match(account_type, outcome) ==
    IF SameTypeMasters(account_type) = {} THEN <<NoId, 0>>
    ELSE IF outcome = OracleFails THEN <<NoId, 0>>
    ELSE outcome

\* What find_master_account_match can return for an account type.
MatchAnswers(account_type) ==
    {find_master_account_match(account_type, outcome) :
        outcome \in OracleOutcomes(account_type)}

\* transactions.py:157: the condition under which the import maps a new
\* account by itself.
AutoMaps(master_account_id, confidence) ==
    master_account_id # NoId /\ confidence >= AutoMapThreshold

\* transactions.py:116-183, one iteration for a number the lookup lacks, on
\* the session state st = [accounts, mappings, pending, auto_mapped_count,
\* known], known being the numbers account_lookup holds.
CreateMissingAccount(st, company_id, account_number, answer) ==
    LET new_id == Len(st.accounts) + 1
        account == [company_id |-> company_id,
                    account_number |-> account_number,
                    account_type |-> infer_account_type_from_number(account_number)]
        created == [st EXCEPT !.accounts = Append(@, account),
                              !.known = @ \cup {account_number}]
    IN  IF AutoMaps(answer[1], answer[2])
            THEN [created EXCEPT
                     !.mappings = Append(@, NewMapping(new_id, answer[1],
                                             Some(answer[2]), "ai_auto", FALSE)),
                     !.auto_mapped_count = @ + 1]
            ELSE [created EXCEPT
                     !.pending = Append(@, [child_account_id |-> new_id,
                                            suggested_master_account |-> answer[1],
                                            confidence |-> answer[2]])]

RECURSIVE CreateMissingAccounts(_, _, _, _)
CreateMissingAccounts(st, company_id, numbers, oracle) ==
    IF numbers = <<>> THEN st
    ELSE LET n == Head(numbers)
             next == IF n \in st.known THEN st
                     ELSE CreateMissingAccount(st, company_id, n, oracle[n])
         IN  CreateMissingAccounts(next, company_id, Tail(numbers), oracle)

\* import_service.py:801-825: the debit and credit prepare_transactions
\* gives a row.
PreparedAmounts(columns, row) ==
    IF "debit" \in columns /\ "credit" \in columns
        THEN <<NumberOrZero(row.debit), NumberOrZero(row.credit)>>
    ELSE LET amount == NumberOrZero(row.amount)
         IN  IF amount < 0 THEN <<0, Abs(amount)>> ELSE <<amount, 0>>

\* import_service.py:766-850: prepare_transactions, as [transactions, errors]
\* with errors the number of rows it rejects.
RECURSIVE prepare_transactions(_, _, _, _)
prepare_transactions(columns, rows, company_id, accounts) ==
    IF rows = <<>> THEN [transactions |-> <<>>, errors |-> 0]
    ELSE LET row == Head(rows)
             rest == prepare_transactions(columns, Tail(rows), company_id, accounts)
             bad == [rest EXCEPT !.errors = @ + 1]
         IN  IF "date" \notin columns \/ row.date = None THEN bad
             ELSE IF "account_number" \notin columns \/ row.account_number = None THEN bad
             ELSE IF AccountLookup(accounts, company_id, row.account_number[1]) = NoId THEN bad
             ELSE LET amounts == PreparedAmounts(columns, row)
                      txn == [company_id |-> company_id,
                              account_id |-> AccountLookup(accounts, company_id,
                                                           row.account_number[1]),
                              debit_amount |-> amounts[1],
                              credit_amount |-> amounts[2],
                              fiscal_period |-> row.date]
                  IN  [rest EXCEPT !.transactions = <<txn>> \o @]

ImportResult(success_count, error_count, total_rows, pending_mappings, auto_mapped_count) ==
    [kind |-> "import", success_count |-> success_count, error_count |-> error_count,
     total_rows |-> total_rows,
     pending_mappings |-> pending_mappings, auto_mapped_count |-> auto_mapped_count]

\* The new numbers of a file: those the oracle is asked about.
NewNumbers(company_id, file) ==
    IF "account_number" \notin file.columns THEN {}
    ELSE {row.account_number[1] : row \in {file.rows[i] : i \in 1..Len(file.rows)} \ 
              {r \in {file.rows[i] : i \in 1..Len(file.rows)} : r.account_number = None}}
         \ {n \in AccountNumbers : AccountLookup(company_accounts, company_id, n) # NoId}

\* transactions.py:99-102: the numbers account_lookup holds when it is built.
KnownNumbers(company_id) ==
    {n \in AccountNumbers : AccountLookup(company_accounts, company_id, n) # NoId}

\* transactions.py:104-262: the handler from the lookup on, known being the
\* numbers its account_lookup holds.
StoreImport(company_id, file, oracle, known) ==
    LET numbers == IF "account_number" \in file.columns
                       THEN UniqueAccounts(file.rows, {}) ELSE <<>>
        st == CreateMissingAccounts([accounts |-> company_accounts,
                                     mappings |-> account_mappings,
                                     pending |-> <<>>,
                                     auto_mapped_count |-> 0,
                                     known |-> known],
                                    company_id, numbers, oracle)
        prep == prepare_transactions(file.columns, file.rows, company_id, st.accounts)
    IN  /\ Len(st.accounts) <= MaxAccounts
        /\ Len(st.mappings) <= MaxMappings
        /\ company_accounts' = st.accounts
        /\ account_mappings' = st.mappings
        /\ UNCHANGED <<master_accounts, runs, engine>>
        /\ IF prep.errors > 0
              THEN /\ response' = ImportResult(0, prep.errors, Len(file.rows), <<>>, 0)
                   /\ UNCHANGED transactions
              ELSE /\ Len(transactions) + Len(prep.transactions) <= MaxTxns
                   /\ transactions' = transactions \o prep.transactions
                   /\ response' = ImportResult(Len(prep.transactions), 0, Len(file.rows),
                                               st.pending, st.auto_mapped_count)

\* transactions.py:59-262 in one step, with the oracle's answer for each new
\* number.
ImportTransactions(company_id, file, oracle) ==
    IF validate_dataframe(file.columns, file.rows) > 0
    THEN /\ response' = ImportResult(0, validate_dataframe(file.columns, file.rows),
                                     Len(file.rows), <<>>, 0)
         /\ UNCHANGED <<db, runs, engine, importing>>
    ELSE /\ StoreImport(company_id, file, oracle, KnownNumbers(company_id))
         /\ UNCHANGED importing

\* transactions.py:59-102 of a call whose file passes validation: the
\* lookup is built, and the call goes on later.
ImportLookup(company_id, file) ==
    /\ importing = None
    /\ validate_dataframe(file.columns, file.rows) = 0
    /\ importing' = Some([company_id |-> company_id, file |-> file,
                          known |-> KnownNumbers(company_id)])
    /\ UNCHANGED <<db, runs, engine, response>>

\* transactions.py:104-262 of that call.
ImportStore(oracle) ==
    /\ importing # None
    /\ StoreImport(importing[1].company_id, importing[1].file, oracle,
                   importing[1].known)
    /\ importing' = None

\* ------------------------------------------------------ POST /transactions
\* transactions.py:37-43: the row is stored as given; fiscal_year and
\* fiscal_period are not set.  The foreign keys need the account to exist.
CreateTransaction(account_id, debit_amount, credit_amount) ==
    /\ Len(transactions) < MaxTxns
    /\ account_id \in Ids(company_accounts)
    /\ transactions' = Append(transactions,
           [company_id |-> company_accounts[account_id].company_id,
            account_id |-> account_id,
            debit_amount |-> debit_amount,
            credit_amount |-> credit_amount,
            fiscal_period |-> None])
    /\ response' = [kind |-> "transaction"]
    /\ UNCHANGED <<company_accounts, master_accounts, account_mappings, runs, engine, importing>>

\* ------------------------------------------------- the consolidation engine
\* The columns of consolidation_runs the model keeps (models/consolidation.py
\* :162-183).  The table has no error_message column.
RunColumns ==
    {"fiscal_period", "status", "total_assets", "total_liabilities",
     "total_equity", "total_revenue", "total_expenses", "net_income",
     "companies_included", "elimination_count"}

TotalColumns ==
    {"total_assets", "total_liabilities", "total_equity", "total_revenue",
     "total_expenses", "net_income"}

\* What a commit writes of a session object: its mapped columns.
Stored(object) == [c \in RunColumns |-> object[c]]

\* What the session holds for a stored row: the columns, and no value for
\* the unmapped attribute error_message.
Loaded(row) ==
    [c \in RunColumns \cup {"error_message"} |->
        IF c = "error_message" THEN None ELSE row[c]]

\* A run created with the column default of status instead of line 31.
NewRunWithDefaultStatus(company_ids, fiscal_period) ==
    [fiscal_period |-> fiscal_period, status |-> "pending",
     total_assets |-> None, total_liabilities |-> None, total_equity |-> None,
     total_revenue |-> None, total_expenses |-> None, net_income |-> None,
     companies_included |-> company_ids, elimination_count |-> 0,
     error_message |-> None]

\* consolidation_engine.py:28-32.
NewRun(company_ids, fiscal_period) ==
    [fiscal_period |-> fiscal_period, status |-> "processing",
     total_assets |-> None, total_liabilities |-> None, total_equity |-> None,
     total_revenue |-> None, total_expenses |-> None, net_income |-> None,
     companies_included |-> company_ids, elimination_count |-> 0,
     error_message |-> None]

NoRun == NewRun({}, 0)
NoBalances == <<>>
NoResponse == [kind |-> "none"]

\* consolidation_engine.py:64-68: the active companies of the organization,
\* narrowed to company_ids when the request names any.
GetCompanies(company_ids) ==
    {c \in Companies : CompanyIsActive(c) /\ (company_ids = {} \/ c \in company_ids)}

\* consolidation_engine.py:70-75.
GetTransactionsForPeriod(company_ids, fiscal_period) ==
    SelectSeq(transactions,
              LAMBDA t : t.company_id \in company_ids
                         /\ t.fiscal_period = Some(fiscal_period))

\* consolidation_engine.py:83-87: one transaction added to the balances map
\* under the mapping the query returned.
AddToBalances(bal, txn, mapping_id) ==
    LET mid == account_mappings[mapping_id].master_account_id
        old == IF mid \in DOMAIN bal THEN bal[mid]
               ELSE [debit |-> 0, credit |-> 0, net |-> 0, account_type |-> None]
    IN  (mid :> [old EXCEPT !.debit = @ + txn.debit_amount,
                            !.credit = @ + txn.credit_amount,
                            !.account_type = Some(master_accounts[mid].account_type)])
        @@ bal

\* consolidation_engine.py:88-89.
WithNet(bal) ==
    [mid \in DOMAIN bal |->
        [bal[mid] EXCEPT !.net = bal[mid].debit - bal[mid].credit]]

\* An elimination step that returns no balances.
DropBalances(bal, eliminations) == <<>>

\* consolidation_engine.py:92-96: the reference elimination step.
DetectAndEliminateIntercompany == <<>>
ApplyEliminations(bal, eliminations) == bal

SignedFinancialStatements(bal) ==
    LET OfType(t) == {mid \in DOMAIN bal : bal[mid].account_type = Some(t)}
        net == [mid \in DOMAIN bal |-> bal[mid].net]
        net_income == SumOver(OfType("revenue"), net) - SumOver(OfType("expense"), net)
    IN  [total_assets |-> SumOver(OfType("asset"), net),
         total_liabilities |-> SumOver(OfType("liability"), net),
         total_equity |-> SumOver(OfType("equity"), net) + net_income,
         total_revenue |-> SumOver(OfType("revenue"), net),
         total_expenses |-> SumOver(OfType("expense"), net),
         net_income |-> net_income]

\* consolidation_engine.py:98-115.
CalculateFinancialStatements(bal) ==
    LET OfType(t) == {mid \in DOMAIN bal : bal[mid].account_type = Some(t)}
        net == [mid \in DOMAIN bal |-> bal[mid].net]
        absnet == [mid \in DOMAIN bal |-> Abs(bal[mid].net)]
        total_assets == SumOver(OfType("asset"), net)
        total_liabilities == SumOver(OfType("liability"), absnet)
        equity_base == SumOver(OfType("equity"), absnet)
        total_revenue == SumOver(OfType("revenue"), absnet)
        total_expenses == SumOver(OfType("expense"), net)
        net_income == total_revenue - total_expenses
    IN  [total_assets |-> total_assets, total_liabilities |-> total_liabilities,
         total_equity |-> equity_base + net_income, total_revenue |-> total_revenue,
         total_expenses |-> total_expenses, net_income |-> net_income]

\* The six totals written into an object.
WithTotals(object, financials) ==
    [c \in DOMAIN object |->
        IF c \in TotalColumns THEN Some(financials[c]) ELSE object[c]]

\* consolidation_engine.py:45-54: the attributes set on success.
Completed(object, financials, eliminations) ==
    [WithTotals(object, financials) EXCEPT
        !.status = "completed", !.elimination_count = Len(eliminations)]

\* consolidation_engine.py:59-60: the attributes set in the except branch.
Failed(object, message) ==
    [object EXCEPT !.status = "failed", !.error_message = Some(message)]

\* consolidation_engine.py:28-35: the run row is created and committed.
RunBegin(company_ids, fiscal_period) ==
    /\ pc = "idle"
    /\ Len(runs) < MaxRuns
    /\ run' = NewRun(company_ids, fiscal_period)
    /\ runs' = Append(runs, Stored(run'))
    /\ run_id' = Len(runs) + 1
    /\ pc' = "load"
    /\ response' = NoResponse
    /\ UNCHANGED <<db, importing, txns, balances, error>>

\* consolidation_engine.py:38-39.
RunLoad ==
    /\ pc = "load"
    /\ txns' = GetTransactionsForPeriod(GetCompanies(run.companies_included),
                                        run.fiscal_period)
    /\ pc' = "aggregate"
    /\ UNCHANGED <<db, importing, runs, run, run_id, balances, error, response>>

\* consolidation_engine.py:79-87: one iteration of the aggregator's loop.
\* .first() has no ORDER BY, so any active mapping of the account may be the
\* one it returns.
RunAggregate ==
    /\ pc = "aggregate"
    /\ txns # <<>>
    /\ LET txn == Head(txns)
       IN  IF ActiveMappings(txn.account_id) = {}
              THEN UNCHANGED balances
              ELSE \E m \in ActiveMappings(txn.account_id) :
                       balances' = AddToBalances(balances, txn, m)
    /\ txns' = Tail(txns)
    /\ UNCHANGED <<db, importing, runs, pc, run, run_id, error, response>>

\* A query of lines 38-39 or 80-82 raises (the database fails).
RunRaise ==
    /\ pc \in {"load", "aggregate"}
    /\ pc' = "except"
    /\ error' = Some(DbError)
    /\ UNCHANGED <<db, importing, runs, run, run_id, txns, balances, response>>

\* consolidation_engine.py:88-56: the loop is over; nets, eliminations,
\* totals, and the commit that stores them.
RunFinish ==
    /\ pc = "aggregate"
    /\ txns = <<>>
    /\ LET eliminations == DetectAndEliminateIntercompany
           final_balances == ApplyEliminations(WithNet(balances), eliminations)
           financials == CalculateFinancialStatements(final_balances)
       IN  runs' = [runs EXCEPT ![run_id] = Stored(Completed(run, financials, eliminations))]
    /\ pc' = "idle"
    /\ response' = [kind |-> "consolidation", status_code |-> 201, run_id |-> run_id]
    /\ run' = NoRun
    /\ balances' = NoBalances
    /\ UNCHANGED <<db, importing, run_id, txns, error>>

\* The failed commit of line 55 with a session that kept the object's
\* unsaved attributes.
RunCommitFailsKeepingAttributes ==
    /\ pc = "aggregate"
    /\ txns = <<>>
    /\ LET eliminations == DetectAndEliminateIntercompany
           final_balances == ApplyEliminations(WithNet(balances), eliminations)
           financials == CalculateFinancialStatements(final_balances)
       IN  run' = Completed(run, financials, eliminations)
    /\ pc' = "except"
    /\ error' = Some(DbError)
    /\ balances' = NoBalances
    /\ UNCHANGED <<db, importing, runs, run_id, txns, response>>

\* consolidation_engine.py:55: the commit raises; the session rolls back, so
\* the object's unsaved attributes are discarded.
RunCommitFails ==
    /\ pc = "aggregate"
    /\ txns = <<>>
    /\ run' = Loaded(runs[run_id])
    /\ pc' = "except"
    /\ error' = Some(DbError)
    /\ balances' = NoBalances
    /\ UNCHANGED <<db, importing, runs, run_id, txns, response>>

\* consolidation_engine.py:57-62: the except branch; its commit succeeds
\* (stored = TRUE) or raises in turn.
RunExcept(stored) ==
    /\ pc = "except"
    /\ runs' = IF stored
                 THEN [runs EXCEPT ![run_id] = Stored(Failed(run, error[1]))]
                 ELSE runs
    /\ pc' = "idle"
    /\ response' = [kind |-> "consolidation", status_code |-> 500, run_id |-> run_id,
                    detail |-> error[1]]
    /\ error' = None
    /\ run' = NoRun
    /\ txns' = <<>>
    /\ balances' = NoBalances
    /\ UNCHANGED <<db, importing, run_id>>

\* ---------------------------------------------------- maintenance scripts
\* The balances maps the aggregation loop can end with for a list of
\* transactions (recalculate_consolidations.py:52-69, verify_all_math.py
\* :59-79): one per choice of the mapping .first() returns.
RECURSIVE AggregateOutcomes(_, _)
AggregateOutcomes(list, bal) ==
    IF list = <<>> THEN {WithNet(bal)}
    ELSE LET txn == Head(list)
         IN  IF ActiveMappings(txn.account_id) = {}
                THEN AggregateOutcomes(Tail(list), bal)
                ELSE UNION {AggregateOutcomes(Tail(list), AddToBalances(bal, txn, m)) :
                               m \in ActiveMappings(txn.account_id)}

\* recalculate_consolidations.py:34-114, one iteration: the totals of a
\* stored run are computed again from the companies it lists and written
\* over the stored ones, whatever the run's status.
RecalculateConsolidations(r) ==
    /\ r \in Ids(runs)
    /\ LET companies == {c \in runs[r].companies_included : CompanyIsActive(c)}
           list == GetTransactionsForPeriod(companies, runs[r].fiscal_period)
       IN  \E bal \in AggregateOutcomes(list, NoBalances) :
               runs' = [runs EXCEPT
                           ![r] = WithTotals(@, CalculateFinancialStatements(bal))]
    /\ response' = NoResponse
    /\ UNCHANGED <<db, engine, importing>>

\* verify_all_math.py:38-160, one iteration: a run with transactions whose
\* stored assets differ from the recomputed ones gets all six totals
\* replaced.  A run without stored assets ends the script (line 119).
VerifyAllMath(r) ==
    /\ r \in Ids(runs)
    /\ runs[r].total_assets # None
    /\ LET list == GetTransactionsForPeriod(runs[r].companies_included,
                                            runs[r].fiscal_period)
       IN  /\ list # <<>>
           /\ \E bal \in AggregateOutcomes(list, NoBalances) :
                 LET calc == CalculateFinancialStatements(bal)
                 IN  /\ runs[r].total_assets[1] # calc.total_assets
                     /\ runs' = [runs EXCEPT ![r] = WithTotals(@, calc)]
    /\ response' = NoResponse
    /\ UNCHANGED <<db, engine, importing>>

\* ------------------------------------- GET /consolidation/runs/{id}/details
\* consolidation.py:133-136.
NoBreakdown ==
    [assets |-> 0, liabilities |-> 0, revenue |-> 0, expenses |-> 0]

\* consolidation.py:145-157: one transaction added to a company's sums under
\* the mapping the query returned; an equity master account adds nothing.
AddToBreakdown(sums, txn, mapping_id) ==
    LET account_type ==
            master_accounts[account_mappings[mapping_id].master_account_id].account_type
        net_amount == txn.debit_amount - txn.credit_amount
    IN  IF account_type = "asset" THEN [sums EXCEPT !.assets = @ + net_amount]
        ELSE IF account_type = "liability"
            THEN [sums EXCEPT !.liabilities = @ + Abs(net_amount)]
        ELSE IF account_type = "revenue"
            THEN [sums EXCEPT !.revenue = @ + Abs(net_amount)]
        ELSE IF account_type = "expense"
            THEN [sums EXCEPT !.expenses = @ + net_amount]
        ELSE sums

\* consolidation.py:138-157: the sums the loop can end with, one per choice
\* of the mapping .first() returns.
RECURSIVE BreakdownOutcomes(_, _)
BreakdownOutcomes(list, sums) ==
    IF list = <<>> THEN {sums}
    ELSE LET txn == Head(list)
         IN  IF ActiveMappings(txn.account_id) = {}
                THEN BreakdownOutcomes(Tail(list), sums)
                ELSE UNION {BreakdownOutcomes(Tail(list), AddToBreakdown(sums, txn, m)) :
                               m \in ActiveMappings(txn.account_id)}

\* consolidation.py:159-173: the CompanyBreakdown built from the sums.
CompanyBreakdown(sums, transaction_count) ==
    [assets |-> sums.assets, liabilities |-> sums.liabilities,
     equity |-> sums.assets - sums.liabilities,
     revenue |-> sums.revenue, expenses |-> sums.expenses,
     net_income |-> sums.revenue - sums.expenses,
     transaction_count |-> transaction_count]

\* consolidation.py:126-131, 138-173: the breakdowns the handler can build
\* for one company of a stored run.
CompanyBreakdowns(r, company_id) ==
    LET list == GetTransactionsForPeriod({company_id}, runs[r].fiscal_period)
    IN  {CompanyBreakdown(sums, Len(list)) : sums \in BreakdownOutcomes(list, NoBreakdown)}

\* consolidation.py:106-193: the stored run with a breakdown for each company
\* it lists.
GetConsolidationDetails(r) ==
    /\ r \in Ids(runs)
    /\ \E company_breakdowns \in
              [runs[r].companies_included ->
                  UNION {CompanyBreakdowns(r, c) : c \in runs[r].companies_included}] :
          /\ \A c \in runs[r].companies_included :
                 company_breakdowns[c] \in CompanyBreakdowns(r, c)
          /\ response' = [kind |-> "details", run_id |-> r,
                          company_breakdowns |-> company_breakdowns]
    /\ UNCHANGED <<db, runs, engine, importing>>

\* ------------------------------------------ GET /reports/{id}/export/excel
\* The values of companies.ownership_percentage (models/consolidation.py:86)
\* the export may find, None being NULL.
Ownerships == {None, Some(75), Some(100)}

\* reports.py:112: float(company_data[2] or 100.0).
OwnershipPct(column) ==
    IF column = None \/ column[1] = 0 THEN 100 ELSE column[1]

\* The parent's share of an amount instead of the others'.
ControllingInterest(amount, ownership_pct) == amount * ownership_pct

\* reports.py:115-117: the share of an amount that is not the parent's, in
\* hundredths of the amount's unit.
NonControllingInterest(amount, ownership_pct) == amount * (100 - ownership_pct)

\* The rows the queries at reports.py:39-109 join for a company and an
\* account type: a transaction once for every mapping row of its account,
\* active or not, whose master account has the type.
JoinedRows(company_id, account_type, periods) ==
    {p \in Ids(transactions) \X Ids(account_mappings) :
        /\ transactions[p[1]].company_id = company_id
        /\ transactions[p[1]].fiscal_period \in {Some(q) : q \in periods}
        /\ account_mappings[p[2]].company_account_id = transactions[p[1]].account_id
        /\ master_accounts[account_mappings[p[2]].master_account_id].account_type
               = account_type}

\* SUM(debit_amount - credit_amount) over the joined rows.
SumDebitLessCredit(rows) ==
    SumOver(rows, [p \in rows |-> transactions[p[1]].debit_amount
                                    - transactions[p[1]].credit_amount])

\* reports.py:37-132: the breakdown of one company of the run.  The amounts
\* nci_equity and nci_income are kept in hundredths, the others in units.
MemberBreakdown(r, company_id, column) ==
    LET this == {runs[r].fiscal_period}
        upto == {q \in Periods : q <= runs[r].fiscal_period}
        revenue == 0 - SumDebitLessCredit(JoinedRows(company_id, "revenue", this))
        expenses == SumDebitLessCredit(JoinedRows(company_id, "expense", this))
        assets == SumDebitLessCredit(JoinedRows(company_id, "asset", upto))
        liabilities == 0 - SumDebitLessCredit(JoinedRows(company_id, "liability", upto))
        ownership_pct == OwnershipPct(column)
        equity == assets - liabilities
        net_income == revenue - expenses
    IN  [revenue |-> revenue, expenses |-> expenses, net_income |-> net_income,
         assets |-> assets, liabilities |-> liabilities, equity |-> equity,
         ownership_percentage |-> ownership_pct,
         nci_equity |-> NonControllingInterest(equity, ownership_pct),
         nci_income |-> NonControllingInterest(net_income, ownership_pct)]

\* reports.py:152-174: the NCI lines of the summary sheet, in hundredths.
SummaryMetrics(total_equity, net_income, members) ==
    LET total_nci_equity ==
            SumOver(DOMAIN members, [c \in DOMAIN members |-> members[c].nci_equity])
        total_nci_income ==
            SumOver(DOMAIN members, [c \in DOMAIN members |-> members[c].nci_income])
    IN  [total_equity |-> 100 * total_equity,
         nci_equity |-> total_nci_equity,
         parent_equity |-> 100 * total_equity - total_nci_equity,
         net_income |-> 100 * net_income,
         nci_income |-> total_nci_income,
         parent_net_income |-> 100 * net_income - total_nci_income]

\* reports.py:20-174: the export of a stored run; a run without totals makes
\* the subtraction of line 166 raise.
ExportToExcel(r, ownership) ==
    /\ r \in Ids(runs)
    /\ LET members == [c \in runs[r].companies_included |->
                          MemberBreakdown(r, c, ownership[c])]
       IN  response' =
               IF runs[r].total_equity = None
                   THEN [kind |-> "export", status_code |-> 500, run_id |-> r]
                   ELSE [kind |-> "export", status_code |-> 200, run_id |-> r,
                         members |-> members,
                         metrics |-> SummaryMetrics(runs[r].total_equity[1],
                                                    runs[r].net_income[1], members)]
    /\ UNCHANGED <<db, runs, engine, importing>>

\* ------------------------------------------ GET /companies/{id}/financials
\* companies.py:236-258: the mapping statistics of the response; the handler
\* stores nothing.  mapped_accounts counts the active rows of account_mappings
\* joined to the company's accounts.
MappedAccountCount(company_id) ==
    Cardinality({m \in Ids(account_mappings) :
        /\ account_mappings[m].is_active
        /\ account_mappings[m].company_account_id \in Ids(company_accounts)
        /\ company_accounts[account_mappings[m].company_account_id].company_id
               = company_id})

AllCompanyAccounts(company_id) ==
    {a \in Ids(company_accounts) : company_accounts[a].company_id = company_id}

GetCompanyFinancials(company_id) ==
    /\ response' = [kind |-> "financials",
                    company_id |-> company_id,
                    mapped_account_count |-> MappedAccountCount(company_id),
                    unmapped_account_count |->
                        Cardinality(AllCompanyAccounts(company_id))
                            - MappedAccountCount(company_id)]
    /\ UNCHANGED <<db, runs, engine, importing>>

\* ------------------------------------ the rule-based (fallback) resolver
\* ai_service.py:137-228.  An account name is the sequence of its lowercase
\* words; no word of Words is part of another, so that a name is a substring
\* of another exactly when its words are a run of the other's words.  Scores
\* are in ScoreUnit-ths and confidences in ConfidenceUnit-ths, which keeps
\* len(common) / max(...), 0.3, 0.2, 0.1 and score * 0.3 exact.
Words == {"widget", "cloud", "utilities"}

ScoreUnit == 60

ConfidenceUnit == 6000

ResolverTypes == {"expense", "revenue"}

Names == UNION {[1..n -> Words] : n \in 1..MaxWords}

NamedAccounts == [account_name : Names, account_type : ResolverTypes]

\* ai_service.py:143-151, for the words of Words.
keyword_associations ==
    [w \in Words |-> IF w = "cloud" THEN {"utilities", "research", "development"}
                     ELSE {}]

\* set(name.split())
Keywords(name) == {name[i] : i \in 1..Len(name)}

\* a in b, for names.
IsSubstring(a, b) ==
    \E k \in 0..(Len(b) - Len(a)) : \A i \in 1..Len(a) : b[k + i] = a[i]

Max(a, b) == IF a >= b THEN a ELSE b

Min(a, b) == IF a <= b THEN a ELSE b

\* ai_service.py:166-183: the score of one master account of the type.
Score(comp_name, master_name) ==
    LET keywords_comp == Keywords(comp_name)
        keywords_master == Keywords(master_name)
        common == keywords_comp \cap keywords_master
        overlap == IF common = {} THEN 0
                   ELSE (ScoreUnit * Cardinality(common))
                            \div Max(Cardinality(keywords_comp),
                                     Cardinality(keywords_master))
        boost == IF IsSubstring(comp_name, master_name)
                        \/ IsSubstring(master_name, comp_name)
                    THEN (3 * ScoreUnit) \div 10 ELSE 0
        associated == {w \in keywords_comp :
                          keyword_associations[w] \cap keywords_master # {}}
    IN  overlap + boost + Cardinality(associated) * ((2 * ScoreUnit) \div 10)

\* ai_service.py:159-187: the loop over the master accounts from the i-th
\* on; best is [match, score], match the position in the list or NoId.
RECURSIVE BestMatch(_, _, _, _)
BestMatch(comp_acc, masters, i, best) ==
    IF i > Len(masters) THEN best
    ELSE LET master_acc == masters[i]
             score == Score(comp_acc.account_name, master_acc.account_name)
         IN  IF master_acc.account_type # comp_acc.account_type
                THEN BestMatch(comp_acc, masters, i + 1, best)
             ELSE IF score > best.score
                THEN BestMatch(comp_acc, masters, i + 1,
                               [match |-> i, score |-> score])
             ELSE BestMatch(comp_acc, masters, i + 1, best)

SameTypeAccounts(comp_acc, masters) ==
    {m \in 1..Len(masters) :
        masters[m].account_type = comp_acc.account_type}

KeepBest(best, comp_acc, masters) == best

\* ai_service.py:189-194: without a match, the first master account of the
\* type, with score 0.1.
WeakMatch(best, comp_acc, masters) ==
    LET same_type_accounts == SameTypeAccounts(comp_acc, masters)
    IN  IF (best.match = NoId \/ best.score = 0) /\ same_type_accounts # {}
            THEN [match |-> CHOOSE m \in same_type_accounts :
                                \A n \in same_type_accounts : m <= n,
                  score |-> ScoreUnit \div 10]
            ELSE best

\* ai_service.py:209: max(0.65, min(0.7 + best_score * 0.3, 0.98)).
ConfidenceScore(best_score) ==
    Max((65 * ConfidenceUnit) \div 100,
        Min((7 * ConfidenceUnit) \div 10
                + best_score * ((3 * ConfidenceUnit) \div (10 * ScoreUnit)),
            (98 * ConfidenceUnit) \div 100))

\* ai_service.py:137-228: the suggestions, in the order of the accounts.
RECURSIVE generate_fallback_mappings(_, _, _)
generate_fallback_mappings(accounts, masters, i) ==
    IF i > Len(accounts) THEN <<>>
    ELSE LET comp_acc == accounts[i]
             best == WeakMatch(BestMatch(comp_acc, masters, 1,
                                         [match |-> NoId, score |-> 0]),
                               comp_acc, masters)
             rest == generate_fallback_mappings(accounts, masters, i + 1)
         IN  IF best.match # NoId
                THEN <<[company_account_id |-> i,
                        master_account_id |-> best.match,
                        confidence_score |-> ConfidenceScore(best.score)]>> \o rest
                ELSE rest

\* ai_service.py:95-101 when the oracle call raises: the request and the
\* suggestions that answer it.
SuggestAccountMappings(accounts, masters) ==
    /\ response' = [kind |-> "suggestions",
                    company_accounts |-> accounts,
                    master_accounts |-> masters,
                    suggestions |-> generate_fallback_mappings(accounts,
                                                               masters, 1)]
    /\ UNCHANGED <<db, runs, engine, importing>>

\* ------------------------------------------------------------ the system
\* The chart of accounts the organization starts with.
InitialMasters == <<[account_type |-> "asset"], [account_type |-> "liability"]>>

Init ==
    /\ company_accounts = <<>>
    /\ master_accounts = InitialMasters
    /\ account_mappings = <<>>
    /\ transactions = <<>>
    /\ runs = <<>>
    /\ pc = "idle"
    /\ run = NoRun
    /\ run_id = NoId
    /\ txns = <<>>
    /\ balances = NoBalances
    /\ error = None
    /\ importing = None
    /\ response = NoResponse

ImportFrom(companies, files) ==
    \E company_id \in companies, file \in files :
        \E oracle \in [NewNumbers(company_id, file) ->
                          UNION {MatchAnswers(t) : t \in AccountType}] :
            /\ \A n \in DOMAIN oracle :
                   oracle[n] \in MatchAnswers(infer_account_type_from_number(n))
            /\ ImportTransactions(company_id, file, oracle)

Import == ImportFrom(Companies, Files)

Approve ==
    \E n \in 1..MaxDecisions : \E ds \in [1..n -> Decisions] : ApproveMappings(ds)

ManualMapping ==
    \E a \in Ids(company_accounts), m \in Ids(master_accounts) : CreateMapping(a, m)

ManualTransaction ==
    \E a \in Ids(company_accounts), d \in Amounts, c \in Amounts :
        CreateTransaction(a, d, c)

\* One request to POST /consolidation/run at a time, for the given choices
\* of company_ids and period.
Engine(company_sets, periods) ==
    \/ \E company_ids \in company_sets, p \in periods : RunBegin(company_ids, p)
    \/ RunLoad
    \/ RunAggregate
    \/ RunRaise
    \/ RunFinish
    \/ RunCommitFails
    \/ \E stored \in BOOLEAN : RunExcept(stored)

Consolidate == Engine(SUBSET Companies, Periods)

Scripts ==
    \/ \E r \in Ids(runs) : RecalculateConsolidations(r)
    \/ \E r \in Ids(runs) : VerifyAllMath(r)

\* The handlers that read.
Reads ==
    \/ \E r \in Ids(runs) : GetConsolidationDetails(r)
    \/ \E r \in Ids(runs) :
          \E ownership \in [runs[r].companies_included -> Ownerships] :
              ExportToExcel(r, ownership)
    \/ \E company_id \in Companies : GetCompanyFinancials(company_id)
    \/ \E n \in 1..MaxUnmapped, m \in 0..MaxSuggested :
          \E accounts \in [1..n -> NamedAccounts],
             masters \in [1..m -> NamedAccounts] :
              SuggestAccountMappings(accounts, masters)

\* The whole system.
Next ==
    \/ Import
    \/ Approve
    \/ ManualMapping
    \/ ManualTransaction
    \/ Consolidate
    \/ Scripts
    \/ Reads

Spec == Init /\ [][Next]_vars

\* ------------------------------------------------------------- the parts
\* The files the parts of the system below are fed.
SingleRowFiles == {f \in Files : Len(f.rows) = 1}

PostingFiles ==
    {f \in SingleRowFiles :
        "debit" \in f.columns /\ validate_dataframe(f.columns, f.rows) = 0}

DebitFiles == {f \in PostingFiles : f.rows[1].debit # None}

\* A debit of the asset account or a credit of the liability account.
EntryFiles ==
    {f \in PostingFiles :
        (f.rows[1].debit # None) <=> (f.rows[1].account_number = Some(<<"1", "0">>))}

UndatedFiles == {f \in Files : "date" \notin f.columns}

\* Ingestion: the two handlers that store transactions.
NextLedger ==
    \/ ImportFrom({"c1"}, SingleRowFiles)
    \/ ManualTransaction

SpecLedger == Init /\ [][NextLedger]_vars

\* The import handler on files of up to MaxRows rows.
NextImport == ImportFrom({"c1"}, Files)

SpecImport == Init /\ [][NextImport]_vars

\* Two sessions importing for one company: one call at a time is held
\* between its lookup and the rest, while other calls run through; the
\* oracle gives the held call no answer.
NextImports ==
    \/ ImportFrom({"c1"}, PostingFiles)
    \/ \E file \in PostingFiles : ImportLookup("c1", file)
    \/ \E oracle \in [AccountNumbers -> {<<NoId, 0>>}] : ImportStore(oracle)

SpecImports == Init /\ [][NextImports]_vars

\* The import handler while the oracle is absent or fails on every call.
NextOracleDown ==
    \E company_id \in Companies, file \in Files :
        ImportTransactions(company_id, file,
            [n \in NewNumbers(company_id, file) |->
                find_master_account_match(infer_account_type_from_number(n),
                                          OracleFails)])

SpecOracleDown == Init /\ [][NextOracleDown]_vars

\* The handlers that store mappings, and the company's financials.
NextFinancials ==
    \/ ImportFrom({"c1"}, UndatedFiles)
    \/ Approve
    \/ ManualMapping
    \/ GetCompanyFinancials("c1")

SpecFinancials == Init /\ [][NextFinancials]_vars

\* The rule-based resolver on the accounts of one request, the first the
\* service answers.
NextResolver ==
    /\ response = NoResponse
    /\ \E n \in 1..MaxUnmapped, m \in 0..MaxSuggested :
           \E accounts \in [1..n -> NamedAccounts],
              masters \in [1..m -> NamedAccounts] :
               SuggestAccountMappings(accounts, masters)

SpecResolver == Init /\ [][NextResolver]_vars

\* The three handlers that store mappings.
NextMappings ==
    \/ ImportFrom({"c1"}, UndatedFiles)
    \/ Approve
    \/ ManualMapping

SpecMappings == Init /\ [][NextMappings]_vars

\* The engine on the ledgers of two companies while mappings change.
NextAggregate ==
    \/ ImportFrom(Companies, DebitFiles)
    \/ ManualMapping
    \/ Engine({{"c1"}}, {1})

SpecAggregate == Init /\ [][NextAggregate]_vars

\* A run of the engine over a ledger that is closed while it runs, and
\* requests that store mappings through other sessions meanwhile.
NextSnapshot ==
    \/ pc = "idle" /\ ImportFrom({"c1"}, DebitFiles)
    \/ ManualMapping
    \/ Engine({{"c1"}}, {1})

SpecSnapshot == Init /\ [][NextSnapshot]_vars

\* Runs of the engine, the ledger growing, and the maintenance scripts.
NextRuns ==
    \/ ImportFrom({"c1"}, EntryFiles)
    \/ Engine({{}, {"c1"}}, {1})
    \/ Scripts

SpecRuns == Init /\ [][NextRuns]_vars

\* Postings on the liability account.
LiabilityFiles ==
    {f \in PostingFiles : f.rows[1].account_number = Some(<<"2", "0">>)}

\* Requests served one after the other: the ledgers of two companies, runs
\* over both, and the details of the stored runs.
NextEntities ==
    \/ pc = "idle" /\ ImportFrom(Companies, LiabilityFiles)
    \/ Engine({Companies}, {1})
    \/ \E r \in Ids(runs) : GetConsolidationDetails(r)

SpecEntities == Init /\ [][NextEntities]_vars

\* An approval that maps an account to a new revenue master account.
NewRevenueDecision(account_id) ==
    [child_account_id |-> account_id, action |-> "create_new",
     master_account_id |-> NoId, new_master_account |-> Some("revenue")]

\* The books are closed before the first run: ledgers and revenue accounts,
\* then runs over both companies and the export of the stored runs.
NextReports ==
    \/ runs = <<>> /\ ImportFrom(Companies, EntryFiles)
    \/ runs = <<>> /\ \E a \in Ids(company_accounts) :
                          ApproveMappings(<<NewRevenueDecision(a)>>)
    \/ Engine({Companies}, {1})
    \/ \E r \in Ids(runs) :
           \E ownership \in [runs[r].companies_included -> Ownerships] :
               ExportToExcel(r, ownership)

SpecReports == Init /\ [][NextReports]_vars

\* ------------------------------------------- the services' pure functions
\* Balances maps as _apply_mappings_and_aggregate can hand them on
\* (consolidation_engine.py:78-90): per master account a debit, a credit,
\* their difference and an account type, None for a type outside the five.
BalanceRows ==
    {[debit |-> dc[1], credit |-> dc[2], net |-> dc[1] - dc[2], account_type |-> t] :
        dc \in {<<0, 0>>, <<100, 0>>, <<0, 50>>},
        t \in {Some(a) : a \in AccountType} \cup {None}}

BalancesMaps == UNION {[ids -> BalanceRows] : ids \in SUBSET (1..MaxMasters)}

\* consolidation_engine.py:98-115 on one balances map.
Statements(bal) ==
    /\ response' = [kind |-> "statements", balances |-> bal,
                    totals |-> CalculateFinancialStatements(bal)]
    /\ UNCHANGED <<db, runs, engine, importing>>

\* Account identifiers: numbers of every leading digit, names, and the
\* empty identifier.
Identifiers ==
    {<<d, "0">> : d \in {"0", "1", "2", "3", "4", "5", "6", "7", "8", "9"}}
    \cup {<<"cash">>, <<"accounts", "receivable">>, <<"inventory">>,
          <<"accounts", "payable">>, <<"bank", "loan">>, <<"owner", "equity">>,
          <<"share", "capital">>, <<"revenue">>, <<"sales">>, <<"other", "income">>,
          <<"rent">>, <<"widget", "costs">>, <<"equipment">>, <<"bad", "debt">>,
          <<"retained", "earnings">>, <<"professional", "fees">>,
          <<"income", "tax", "payable">>, <<>>}

\* import_service.py:854-898 on one identifier.
InferAccountType(account_number) ==
    /\ response' = [kind |-> "account_type", account_number |-> account_number,
                    account_type |-> infer_account_type_from_number(account_number)]
    /\ UNCHANGED <<db, runs, engine, importing>>

\* A pivoted statement: per row an account identifier and, for each period
\* column, a cell that is empty or holds an amount.
StatementRows ==
    [account_number : {<<"cash">>, <<"accounts", "payable">>,
                       <<"professional", "fees">>, <<"4", "0">>},
     amounts : [Periods -> {None} \cup {Some(a) : a \in Amounts}]]

PivotedStatements == UNION {[1..n -> StatementRows] : n \in 1..MaxRows}

\* import_service.py:311-345, 360-363: the rows the melt gives for the period
\* columns from the p-th on, column by column, without the empty cells, each
\* amount split into debit and credit by the account's normal side.
RECURSIVE unpivot_financial_statement(_, _)
unpivot_financial_statement(df, p) ==
    IF p \notin Periods THEN <<>>
    ELSE LET Melted(i) ==
                 LET amount == NumberOrZero(df[i].amounts[p])
                     normal_side ==
                         IF infer_account_type_from_number(df[i].account_number)
                               \in {"revenue", "liability", "equity"}
                            THEN "credit" ELSE "debit"
                 IN  [account_number |-> df[i].account_number,
                      reference |-> p,
                      debit |-> IF normal_side = "credit"
                                   THEN (IF amount < 0 THEN Abs(amount) ELSE 0)
                                   ELSE (IF amount > 0 THEN amount ELSE 0),
                      credit |-> IF normal_side = "credit"
                                    THEN (IF amount > 0 THEN amount ELSE 0)
                                    ELSE (IF amount < 0 THEN Abs(amount) ELSE 0)]
             kept == SelectSeq([i \in 1..Len(df) |-> i],
                               LAMBDA i : df[i].amounts[p] # None)
         IN  [k \in 1..Len(kept) |-> Melted(kept[k])]
             \o unpivot_financial_statement(df, p + 1)

Unpivot(df) ==
    /\ response' = [kind |-> "unpivot", statement |-> df,
                    rows |-> unpivot_financial_statement(df, 1)]
    /\ UNCHANGED <<db, runs, engine, importing>>

\* import_service.py:707-756 on one parsed file: the structured errors, as
\* pairs of the row and the error's field.
ValidateDataframe(file) ==
    /\ response' = [kind |-> "validation", file |-> file,
                    errors |-> IF Len(file.rows) = 0 THEN {<<0, "general">>}
                               ELSE {e \in (1..Len(file.rows))
                                              \X {"date", "account_number",
                                                  "negative", "zero", "both"} :
                                        e[2] \in RowErrors(file.columns,
                                                            file.rows[e[1]])}]
    /\ UNCHANGED <<db, runs, engine, importing>>

\* ---- import_service.py:89-156, the header locator.  A cell is the sequence
\* of the tokens of its text, lowercase, <<>> when it is empty; an indicator
\* occurs in a cell when it is one of its tokens, and a cell is a number when
\* it is one token of NumberCells.
NumberCells == {"100", "200", "2024"}

PreviewRowKinds ==
    {<<<<"account">>, <<"jan", "-", "24">>, <<"feb", "-", "24">>>>,
     <<<<"account">>, <<"amount">>, <<>>>>,
     <<<<"name">>, <<"2024">>, <<>>>>,
     <<<<"acme", "inc">>, <<"2024">>, <<"jan", "-", "24">>>>,
     <<<<"report">>, <<"2024">>, <<>>>>,
     <<<<"cash">>, <<"100">>, <<"200">>>>,
     <<<<"acme", "inc">>, <<>>, <<>>>>,
     <<<<"balance", "total", "jan">>, <<>>, <<>>>>}

PreviewGrids == UNION {[1..n -> PreviewRowKinds] : n \in 1..MaxGridRows}

\* import_service.py:112-135: what one non-empty cell adds to the score.
CellScore(val) ==
    LET Occurs(terms) == \E i \in 1..Len(val) : val[i] \in terms
        is_number == Len(val) = 1 /\ val[1] \in NumberCells
    IN  (IF Occurs({"jan", "feb", "mar", "apr", "may", "jun", "jul", "aug", "sep",
                    "oct", "nov", "dec", "q1", "q2", "q3", "q4", "quarter",
                    "month", "year"}) THEN 3 ELSE 0)
        + (IF is_number /\ val[1] = "2024" THEN 2 ELSE 0)
        + (IF Occurs({"account", "description", "name", "code", "type",
                      "category", "balance", "amount", "total"}) THEN 2 ELSE 0)
        - (IF is_number THEN 1 ELSE 0)
        - (IF \E i \in 2..Len(val) : val[i] \in {"inc", "llc", "corp", "ltd"}
              THEN 2 ELSE 0)

\* import_service.py:103-135: the score of a row; a row with fewer than two
\* non-empty cells is passed over with score 0.
RowScore(row) ==
    LET row_values == SelectSeq(row, LAMBDA v : v # <<>>)
    IN  IF Len(row_values) < 2 THEN 0
        ELSE SumOver(1..Len(row_values), [i \in 1..Len(row_values) |->
                                             CellScore(row_values[i])])

RECURSIVE LastBestRow(_, _, _)
LastBestRow(grid, idx, best) ==
    IF idx >= Len(grid) \/ idx >= 10 THEN best
    ELSE IF RowScore(grid[idx + 1]) >= best.score /\ RowScore(grid[idx + 1]) > 0
        THEN LastBestRow(grid, idx + 1, [row |-> idx, score |-> RowScore(grid[idx + 1])])
    ELSE LastBestRow(grid, idx + 1, best)

\* import_service.py:96-140: the loop over the first 10 rows from row idx
\* (0-based) on; best is [row, score].
RECURSIVE BestRow(_, _, _)
BestRow(grid, idx, best) ==
    IF idx >= Len(grid) \/ idx >= 10 THEN best
    ELSE IF RowScore(grid[idx + 1]) > best.score
        THEN BestRow(grid, idx + 1, [row |-> idx, score |-> RowScore(grid[idx + 1])])
    ELSE BestRow(grid, idx + 1, best)

\* import_service.py:89-156 on one grid.
FindHeaderRow(grid) ==
    /\ response' = [kind |-> "header_row", grid |-> grid,
                    header_row |->
                        LET best == BestRow(grid, 0, [row |-> 0, score |-> 0])
                        IN  IF best.score < 3 THEN 0 ELSE best.row]
    /\ UNCHANGED <<db, runs, engine, importing>>

\* ---- import_service.py:497-705, the column mapping.  A frame is the sequence
\* of its columns, [name, sample]: the name is the sequence of the tokens of the
\* lowercase column label and a pattern occurs in it when it is one of its
\* tokens (the compound patterns contain a simple one); the sample is the kind
\* of the column's first non-null values.
CanonicalFields ==
    {"date", "account_number", "description", "debit", "credit", "reference", "amount"}

ColumnLabels == <<"0", "1", "2", "3", "4">>

\* Labelled columns; the sample of a column is only read by the amount
\* detection, which compares it with 0.
NamedColumns ==
    {[name |-> n, sample |-> "text"] :
        n \in {<<"dt">>, <<"posted">>, <<"account">>, <<"memo">>, <<"ref">>}}
    \cup {[name |-> n, sample |-> "positive"] :
              n \in {<<"debit">>, <<"credit">>, <<"amount">>}}
    \cup {[name |-> <<"amount">>, sample |-> k] : k \in {"empty", "negative"}}

Samples == {"empty", "dates", "positive", "negative", "digits", "years", "text"}

\* The frames: labelled columns of distinct names, and columns read without a
\* header, labelled by their position.
Frames ==
    UNION {{df \in [1..n -> NamedColumns] :
               \A i, j \in 1..n : df[i].name = df[j].name => i = j}
           \cup {[i \in 1..n |-> [name |-> <<ColumnLabels[i]>>, sample |-> k[i]]] :
                     k \in [1..n -> Samples]} : n \in 1..MaxColumns}

\* mapping[col] = field
Assign(mapping, col, field) ==
    [c \in DOMAIN mapping \cup {col} |-> IF c = col THEN field ELSE mapping[c]]

\* field in mapping.values()
Assigned(mapping, field) == \E c \in DOMAIN mapping : mapping[c] = field

\* import_service.py:595-600, in the order of the checks of lines 648-684.
field_patterns ==
    <<[field |-> "date", patterns |-> {"date", "dt"}],
      [field |-> "account_number", patterns |-> {"account", "acct", "code"}],
      [field |-> "description",
       patterns |-> {"description", "desc", "narrative", "memo", "details",
                     "particulars", "comments"}],
      [field |-> "debit",
       patterns |-> {"debit", "dr", "withdrawals", "expense", "expenses"}],
      [field |-> "credit",
       patterns |-> {"credit", "cr", "deposits", "income", "revenue"}],
      [field |-> "reference",
       patterns |-> {"reference", "ref", "transaction_id", "txn_id", "invoice",
                     "receipt"}]>>

PatternOccurs(patterns, name) == \E i \in 1..Len(name) : name[i] \in patterns

\* import_service.py:607-646: the loop over the columns of a frame without
\* header, from column i on.
RECURSIVE ValueBased(_, _, _)
ValueBased(df, i, mapping) ==
    IF i > Len(df) THEN mapping
    ELSE LET col == df[i].name
             sample == df[i].sample
             parses == sample \in {"dates", "positive", "negative", "years"}
             numeric == sample \in {"positive", "negative"}
             digits == sample \in {"positive", "negative", "digits", "years"}
         IN  ValueBased(df, i + 1,
                 IF sample = "empty" THEN mapping
                 ELSE IF parses /\ ~Assigned(mapping, "date")
                     THEN Assign(mapping, col, "date")
                 ELSE IF numeric /\ ~Assigned(mapping, "debit")
                     THEN Assign(mapping, col, "debit")
                 ELSE IF numeric /\ ~Assigned(mapping, "credit")
                     THEN Assign(mapping, col, "credit")
                 ELSE IF digits /\ ~Assigned(mapping, "account_number")
                     THEN Assign(mapping, col, "account_number")
                 ELSE IF digits THEN mapping
                 ELSE IF ~Assigned(mapping, "description")
                     THEN Assign(mapping, col, "description")
                 ELSE mapping)

\* import_service.py:648-684: the loop over the labelled columns, from
\* column i on.
RECURSIVE NameBased(_, _, _)
NameBased(df, i, mapping) ==
    IF i > Len(df) THEN mapping
    ELSE LET col == df[i].name
             checks == {k \in 1..Len(field_patterns) :
                           /\ ~Assigned(mapping, field_patterns[k].field)
                           /\ PatternOccurs(field_patterns[k].patterns, col)}
         IN  NameBased(df, i + 1,
                 IF checks = {} THEN mapping
                 ELSE Assign(mapping, col,
                          field_patterns[CHOOSE k \in checks :
                                             \A l \in checks : k <= l].field))

\* import_service.py:686-703: the first amount column, when neither side is
\* mapped.
AmountDetection(df, mapping) ==
    LET amounts == {i \in 1..Len(df) :
                       PatternOccurs({"amount", "amt", "value", "total"}, df[i].name)}
    IN  IF Assigned(mapping, "debit") \/ Assigned(mapping, "credit") \/ amounts = {}
            THEN mapping
        ELSE LET i == CHOOSE a \in amounts : \A b \in amounts : a <= b
             IN  IF df[i].sample = "empty" THEN mapping
                 ELSE IF df[i].sample = "negative"
                     THEN Assign(mapping, df[i].name, "amount")
                 ELSE Assign(mapping, df[i].name, "debit")

\* import_service.py:589-705
heuristic_column_mapping(df) ==
    IF \A i \in 1..Len(df) :
           Len(df[i].name) = 1
           /\ \E d \in 1..Len(ColumnLabels) : df[i].name[1] = ColumnLabels[d]
        THEN ValueBased(df, 1, << >>)
    ELSE AmountDetection(df, NameBased(df, 1, << >>))

\* What the oracle can answer (import_service.py:510-571): "unavailable"
\* when there is no client, "fails" when the call or the parsing of its
\* answer raises, or a mapping of some columns to canonical fields.
OracleAnswers(df) ==
    {[outcome |-> o, ai_mapping |-> << >>] : o \in {"unavailable", "fails"}}
    \cup {[outcome |-> "answers", ai_mapping |-> m] :
              m \in UNION {[C -> CanonicalFields] :
                               C \in {D \in SUBSET {df[i].name : i \in 1..Len(df)} :
                                          Cardinality(D) \in 1..MaxOracleEntries}}}

\* import_service.py:497-587: the mapping the frame is renamed with.
AiMapColumns(df, oracle) ==
    LET column_mapping == heuristic_column_mapping(df)
        consulted == Cardinality(DOMAIN column_mapping) < 3
        ai_mapping == oracle.ai_mapping
    IN  /\ ~consulted => oracle.outcome = "unavailable"
        /\ response' =
               [kind |-> "columns", df |-> df, consulted |-> consulted,
                oracle |-> oracle, column_mapping |-> column_mapping,
                final_mapping |->
                    IF ~consulted \/ oracle.outcome # "answers" THEN column_mapping
                    ELSE [c \in DOMAIN column_mapping \cup DOMAIN ai_mapping |->
                              IF c \in DOMAIN ai_mapping THEN ai_mapping[c]
                              ELSE column_mapping[c]]]
        /\ UNCHANGED <<db, runs, engine, importing>>

\* Each function on one input, the first call the service answers.
NextFunctions ==
    /\ response = NoResponse
    /\ \/ \E bal \in BalancesMaps : Statements(bal)
       \/ \E account_number \in Identifiers : InferAccountType(account_number)
       \/ \E df \in PivotedStatements : Unpivot(df)
       \/ \E file \in Files : ValidateDataframe(file)
       \/ \E grid \in PreviewGrids : FindHeaderRow(grid)
       \/ \E df \in Frames : \E oracle \in OracleAnswers(df) : AiMapColumns(df, oracle)

SpecFunctions == Init /\ [][NextFunctions]_vars

\* ------------------------------------------------------------ properties
\* C1: every run with status Completed has totals with
\* |total_assets - (total_liabilities + total_equity)| < 1; a run whose
\* totals break the identity is not Completed.
AccountingIdentity ==
    \A r \in Ids(runs) :
        runs[r].status = "completed" =>
            Abs(runs[r].total_assets[1]
                - (runs[r].total_liabilities[1] + runs[r].total_equity[1])) < 1

\* C2: after any sequence of imports, approvals and manual mappings every
\* company account has at most one active mapping.
AtMostOneActiveMapping ==
    \A a \in Ids(company_accounts) : Cardinality(ActiveMappings(a)) <= 1

\* C3: every stored transaction has debit_amount >= 0, credit_amount >= 0
\* and exactly one of the two strictly positive.
DoubleEntry ==
    \A t \in Ids(transactions) :
        /\ transactions[t].debit_amount >= 0
        /\ transactions[t].credit_amount >= 0
        /\ (transactions[t].debit_amount > 0) # (transactions[t].credit_amount > 0)

\* C4 as stated: a run is first stored as Pending and its status changes
\* only Pending -> Processing -> Completed or Failed.
StatusFromPending ==
    [][\A r \in Ids(runs') :
          IF r \in Ids(runs)
              THEN \/ runs'[r].status = runs[r].status
                   \/ runs[r].status = "pending" /\ runs'[r].status = "processing"
                   \/ /\ runs[r].status = "processing"
                      /\ runs'[r].status \in {"completed", "failed"}
              ELSE runs'[r].status = "pending"]_vars

\* C4: a run is first stored as Processing, its status changes only from
\* Processing to Completed or to Failed, and Completed and Failed are
\* terminal.
StatusFromProcessing ==
    [][\A r \in Ids(runs') :
          IF r \in Ids(runs)
              THEN \/ runs'[r].status = runs[r].status
                   \/ /\ runs[r].status = "processing"
                      /\ runs'[r].status \in {"completed", "failed"}
              ELSE runs'[r].status = "processing"]_vars

\* Both outcomes stored: a Completed run and a Failed run.
BothOutcomesStored ==
    /\ \E r \in Ids(runs) : runs[r].status = "completed"
    /\ \E r \in Ids(runs) : runs[r].status = "failed"

\* C5: when run_consolidation ends with an exception, the run is stored
\* with status Failed and error_message equal to the exception's text.
FailureRecorded ==
    (response.kind = "consolidation" /\ response.status_code = 500) =>
        LET row == Loaded(runs[response.run_id])
        IN  /\ row.status = "failed"
            /\ row.error_message = Some(response.detail)

CompletedTotalsFrozen ==
    [][\A r \in Ids(runs) :
          runs[r].status = "completed" =>
              \A c \in TotalColumns : runs'[r][c] = runs[r][c]]_vars

\* C8: an import gives a new account one active mapping when the resolver
\* returned a master account with confidence >= 0.8, and otherwise no
\* mapping and an entry in the response's pending_mappings.
NewAccountsMappedOrPending ==
    [][response'.kind = "import" =>
          \A a \in Ids(company_accounts') \ Ids(company_accounts) :
              LET maps == ActiveIn(account_mappings', a)
                  pending == response'.pending_mappings
                  entries == {i \in 1..Len(pending) : pending[i].child_account_id = a}
              IN  \/ /\ Cardinality(maps) = 1
                     /\ \A m \in maps :
                            AutoMaps(account_mappings'[m].master_account_id,
                                     account_mappings'[m].confidence_score[1])
                     /\ entries = {}
                  \/ /\ maps = {}
                     /\ Cardinality(entries) = 1
                     /\ \A i \in entries :
                            ~AutoMaps(pending[i].suggested_master_account,
                                      pending[i].confidence)]_vars

\* C9: an approval request leaves every account it maps, if the account had
\* no active mapping or only mappings from earlier decisions, with exactly
\* one active mapping: the one of the last decision applied to it.
DecisionsLeaveOneMapping ==
    [][(response'.kind = "approval" /\ Len(account_mappings') > Len(account_mappings)) =>
          \A a \in Ids(company_accounts) :
              LET new == {m \in Ids(account_mappings') \ Ids(account_mappings) :
                             account_mappings'[m].company_account_id = a}
              IN  (/\ new # {}
                   /\ \A m \in ActiveMappings(a) :
                          account_mappings[m].mapping_source = "user_manual")
                  => \E m \in new :
                         /\ \A k \in new : k <= m
                         /\ ActiveIn(account_mappings', a) = {m}]_vars

\* C10: one iteration of the aggregator adds the transaction's debit and
\* credit to the balance of every master account the transaction's account
\* has an active mapping to, and changes no other balance.
AggregatesEveryActiveMapping ==
    [][(pc = "aggregate" /\ pc' = "aggregate" /\ txns # <<>> /\ txns' = Tail(txns)) =>
          LET txn == Head(txns)
              Debit(bal, m) == IF m \in DOMAIN bal THEN bal[m].debit ELSE 0
              Credit(bal, m) == IF m \in DOMAIN bal THEN bal[m].credit ELSE 0
              Mapped(m) == \E k \in ActiveMappings(txn.account_id) :
                              account_mappings[k].master_account_id = m
          IN  \A m \in Ids(master_accounts) :
                  /\ Debit(balances', m) = Debit(balances, m)
                         + (IF Mapped(m) THEN txn.debit_amount ELSE 0)
                  /\ Credit(balances', m) = Credit(balances, m)
                         + (IF Mapped(m) THEN txn.credit_amount ELSE 0)]_vars

\* C11: the liabilities a run stores are the sum of |net| over the pairs of
\* a company of the run and a liability master account, and the assets and
\* liabilities it stores are the sums of the companies' own assets and
\* liabilities as the details of the run report them.
TotalsArePerEntity ==
    [][(pc = "aggregate" /\ pc' = "idle") =>
          LET companies == GetCompanies(run.companies_included)
              list(e) == GetTransactionsForPeriod({e}, run.fiscal_period)
              Posted(e, m) ==
                  {i \in 1..Len(list(e)) :
                      \E k \in ActiveMappings(list(e)[i].account_id) :
                          account_mappings[k].master_account_id = m}
              EntityNet(e, m) ==
                  SumOver(Posted(e, m),
                          [i \in Posted(e, m) |->
                              list(e)[i].debit_amount - list(e)[i].credit_amount])
              pairs == {p \in companies \X Ids(master_accounts) :
                           master_accounts[p[2]].account_type = "liability"}
          IN  /\ runs'[run_id].total_liabilities[1] =
                     SumOver(pairs, [p \in pairs |-> Abs(EntityNet(p[1], p[2]))])
              /\ \A own \in [companies -> UNION {CompanyBreakdowns(run_id, e) :
                                                    e \in companies}] :
                     (\A e \in companies : own[e] \in CompanyBreakdowns(run_id, e)) =>
                         /\ runs'[run_id].total_assets[1] =
                                SumOver(companies, [e \in companies |-> own[e].assets])
                         /\ runs'[run_id].total_liabilities[1] =
                                SumOver(companies, [e \in companies |-> own[e].liabilities])]_vars

\* C12: in every export the sum of the companies' nci_equity is at most the
\* run's total_equity, and parent_equity plus that sum is total_equity.
NciWithinEquity ==
    (response.kind = "export" /\ response.status_code = 200) =>
        /\ response.metrics.nci_equity <= response.metrics.total_equity
        /\ response.metrics.parent_equity + response.metrics.nci_equity
               = response.metrics.total_equity

\* C13: in every export each company's nci_equity is its equity times
\* (100 - ownership_percentage)/100 and its nci_income its net income times
\* the same share, a company owned 100% has no NCI, parent_net_income is the
\* run's net_income less the sum of nci_income, and the example of A (100%,
\* equity 1,000,000, income 100,000) and B (75%, 400,000, 40,000) gives
\* 100,000, 10,000 and 130,000.  Amounts are compared in hundredths.
NciFormula ==
    /\ (response.kind = "export" /\ response.status_code = 200) =>
           LET members == response.members
               share(c) == 100 - members[c].ownership_percentage
           IN  /\ \A c \in DOMAIN members :
                      /\ members[c].nci_equity = members[c].equity * share(c)
                      /\ members[c].nci_income = members[c].net_income * share(c)
                      /\ members[c].ownership_percentage = 100 =>
                             members[c].nci_equity = 0 /\ members[c].nci_income = 0
               /\ response.metrics.parent_net_income =
                      100 * runs[response.run_id].net_income[1]
                      - SumOver(DOMAIN members,
                                [c \in DOMAIN members |-> members[c].nci_income])
    /\ NonControllingInterest(400000, OwnershipPct(Some(75))) = 100 * 100000
    /\ NonControllingInterest(40000, OwnershipPct(Some(75))) = 100 * 10000
    /\ LET members ==
               [c \in {"A", "B"} |->
                   IF c = "A"
                       THEN [nci_equity |-> NonControllingInterest(1000000, 100),
                             nci_income |-> NonControllingInterest(100000, 100)]
                       ELSE [nci_equity |-> NonControllingInterest(400000, 75),
                             nci_income |-> NonControllingInterest(40000, 75)]]
       IN  SummaryMetrics(1400000, 140000, members).parent_net_income = 100 * 130000

\* An export of a run with income in which one company is owned 75% and has
\* equity and income of its own, and the other is owned 100%.
ExportWithMinority ==
    /\ response.kind = "export"
    /\ response.status_code = 200
    /\ runs[response.run_id].net_income # Some(0)
    /\ \E c \in DOMAIN response.members :
           /\ response.members[c].ownership_percentage = 75
           /\ response.members[c].nci_equity # 0
           /\ response.members[c].nci_income # 0
    /\ \E c \in DOMAIN response.members :
           response.members[c].ownership_percentage = 100

\* C14: two Completed runs over the same companies, period, transactions
\* and mappings store the same six totals.
RunsAreRepeatable ==
    \A r1 \in Ids(runs), r2 \in Ids(runs) :
        (/\ runs[r1].status = "completed"
         /\ runs[r2].status = "completed"
         /\ runs[r1].fiscal_period = runs[r2].fiscal_period
         /\ runs[r1].companies_included = runs[r2].companies_included)
        => \A c \in TotalColumns : runs[r1][c] = runs[r2][c]

\* C15: the elimination step returns the aggregator's balances unchanged
\* and no elimination, so the totals a run stores are the calculator's
\* totals of the aggregator's output and its elimination_count is 0.
EliminationChangesNothing ==
    [][(pc = "aggregate" /\ pc' = "idle") =>
          LET aggregated == WithNet(balances)
              financials == CalculateFinancialStatements(aggregated)
          IN  /\ DetectAndEliminateIntercompany = <<>>
              /\ ApplyEliminations(aggregated, DetectAndEliminateIntercompany)
                     = aggregated
              /\ runs'[run_id].elimination_count = 0
              /\ \A c \in TotalColumns :
                     runs'[run_id][c] = Some(financials[c])]_vars

\* A run completed over mapped transactions of two master accounts.
CompletedWithBalances ==
    \E r \in Ids(runs) :
        /\ runs[r].status = "completed"
        /\ runs[r].elimination_count = 0
        /\ runs[r].total_assets # Some(0)
        /\ runs[r].total_liabilities # Some(0)

\* C16: a row-level error on one row of an imported file does not keep the
\* file's other rows from being stored: the import stores success_count rows
\* and reports the rejected rows as error_count, the two adding up to the
\* rows of the file.
ValidRowsStored ==
    [][(response'.kind = "import" /\ UNCHANGED <<runs, engine>>
            /\ <<db, response>>' # <<db, response>>)
          => /\ Len(transactions') - Len(transactions) = response'.success_count
             /\ response'.success_count + response'.error_count
                    = response'.total_rows]_vars

\* C17: when the oracle is absent or fails while an import resolves a newly
\* created account, the account still gets a suggested master account
\* whenever a master account of its type exists.
FallbackSuggests ==
    response.kind = "import" =>
        \A i \in 1..Len(response.pending_mappings) :
            LET pending == response.pending_mappings[i]
                account == company_accounts[pending.child_account_id]
            IN  SameTypeMasters(account.account_type) # {}
                    => /\ pending.suggested_master_account # NoId
                       /\ pending.confidence > 0

\* C19: in the rule-based resolver an account for which no master account of
\* its type scores above 0 is matched to the first master account of its
\* type in list order, with confidence in [0.65, 0.75); an account gets no
\* suggestion only when no master account of its type exists.
FallbackIsDeterministic ==
    response.kind = "suggestions" =>
        \A i \in 1..Len(response.company_accounts) :
            LET comp_acc == response.company_accounts[i]
                masters == response.master_accounts
                same_type == SameTypeAccounts(comp_acc, masters)
                suggested == {k \in 1..Len(response.suggestions) :
                                 response.suggestions[k].company_account_id = i}
            IN  /\ (suggested = {}) <=> (same_type = {})
                /\ Cardinality(suggested) <= 1
                /\ (/\ same_type # {}
                    /\ \A m \in same_type :
                           Score(comp_acc.account_name, masters[m].account_name) = 0)
                   => \A k \in suggested :
                          LET s == response.suggestions[k]
                          IN  /\ s.master_account_id \in same_type
                              /\ \A m \in same_type : s.master_account_id <= m
                              /\ 100 * s.confidence_score >= 65 * ConfidenceUnit
                              /\ 100 * s.confidence_score < 75 * ConfidenceUnit

\* "widget" (expense) against a revenue and then an expense master account
\* it shares nothing with: the second is suggested, with confidence 0.73.
WeakMatchSuggested ==
    /\ response.kind = "suggestions"
    /\ Len(response.company_accounts) = 1
    /\ response.company_accounts[1] =
           [account_name |-> <<"widget">>, account_type |-> "expense"]
    /\ response.master_accounts =
           <<[account_name |-> <<"widget">>, account_type |-> "revenue"],
             [account_name |-> <<"utilities">>, account_type |-> "expense"]>>
    /\ response.suggestions =
           <<[company_account_id |-> 1, master_account_id |-> 2,
              confidence_score |-> (73 * ConfidenceUnit) \div 100]>>

RECURSIVE SnapshotOutcomes(_, _, _)
SnapshotOutcomes(list, bal, k) ==
    IF list = <<>> THEN {WithNet(bal)}
    ELSE LET txn == Head(list)
             seen == {m \in ActiveMappings(txn.account_id) : m <= k}
         IN  IF seen = {}
                THEN SnapshotOutcomes(Tail(list), bal, k)
                ELSE UNION {SnapshotOutcomes(Tail(list), AddToBalances(bal, txn, m), k) :
                               m \in seen}

\* C18: a run computes its balances against one snapshot of the mappings:
\* when a request stores a mapping while the run is aggregating, the run's
\* balances are those of all its transactions under the mappings as they
\* were at one moment, never the new mapping applied to some of the run's
\* transactions only.
BalancesFromOneSnapshot ==
    [][(pc = "aggregate" /\ pc' = "idle") =>
          LET list == GetTransactionsForPeriod(GetCompanies(run.companies_included),
                                               run.fiscal_period)
          IN  \E k \in 0..Len(account_mappings) :
                  WithNet(balances) \in SnapshotOutcomes(list, NoBalances, k)]_vars

\* C21: the company set a run records in companies_included is the set of
\* companies whose transactions the run aggregates, also when the request
\* names no companies and all active companies are consolidated.
CompaniesIncludedAreAggregated ==
    [][(pc = "load" /\ pc' = "aggregate") =>
          /\ runs[run_id].companies_included = GetCompanies(run.companies_included)
          /\ \A i \in 1..Len(txns') :
                 txns'[i].company_id \in runs[run_id].companies_included]_vars

\* C22: an import that stores no transactions (success_count = 0 after
\* validation errors or errors of preparing the rows) leaves the stored
\* state as it was: no account and no mapping it created remains.
FailedImportStoresNothing ==
    [][(response'.kind = "import" /\ response'.success_count = 0
            /\ UNCHANGED <<runs, engine>>)
          => UNCHANGED db]_vars

\* C23: after any interleaving of imports for one company, the company has
\* at most one account per account number.
OneAccountPerNumber ==
    \A a \in Ids(company_accounts), b \in Ids(company_accounts) :
        (/\ company_accounts[a].company_id = company_accounts[b].company_id
         /\ company_accounts[a].account_number = company_accounts[b].account_number)
        => a = b

\* C24: once a run_consolidation call has returned or raised, the run it
\* created is Completed or Failed: no run is left in Processing while no
\* call is in flight, whichever step failed.
NoRunLeftProcessing ==
    pc = "idle" => \A r \in Ids(runs) : runs[r].status # "processing"

\* The sum over the balances of one account type, of net or of |net|.
RECURSIVE TypeTotal(_, _, _, _)
TypeTotal(bal, ids, t, absolute) ==
    IF ids = {} THEN 0
    ELSE LET mid == CHOOSE m \in ids : TRUE
             part == IF bal[mid].account_type # Some(t) THEN 0
                     ELSE IF absolute /\ bal[mid].net < 0 THEN 0 - bal[mid].net
                     ELSE bal[mid].net
         IN  part + TypeTotal(bal, ids \ {mid}, t, absolute)

\* C25: for any balances map the totals are: total_assets and total_expenses
\* the sums of net over the asset and the expense balances; total_liabilities,
\* the equity base and total_revenue the sums of |net| over the liability,
\* equity and revenue balances; net_income = total_revenue - total_expenses;
\* total_equity = equity base + net_income; a balance of any other type
\* changes no total.
StatementTotals ==
    response.kind = "statements" =>
        LET bal == response.balances
            totals == response.totals
            typed == {mid \in DOMAIN bal : bal[mid].account_type # None}
            Of(t, absolute) == TypeTotal(bal, DOMAIN bal, t, absolute)
        IN  /\ totals.total_assets = Of("asset", FALSE)
            /\ totals.total_expenses = Of("expense", FALSE)
            /\ totals.total_liabilities = Of("liability", TRUE)
            /\ totals.total_revenue = Of("revenue", TRUE)
            /\ totals.net_income = totals.total_revenue - totals.total_expenses
            /\ totals.total_equity = Of("equity", TRUE) + totals.net_income
            /\ totals = CalculateFinancialStatements([mid \in typed |-> bal[mid]])

\* A liability with net -50, an equity balance with net -50, a balance of no
\* type with net 100: liabilities 50, equity 50, and nothing else.
StatementOfCreditBalances ==
    /\ response.kind = "statements"
    /\ DOMAIN response.balances = {1, 2, 3}
    /\ response.balances[1].account_type = Some("liability")
    /\ response.balances[1].net = -50
    /\ response.balances[2].account_type = Some("equity")
    /\ response.balances[2].net = -50
    /\ response.balances[3].account_type = None
    /\ response.balances[3].net = 100
    /\ response.totals = [total_assets |-> 0, total_liabilities |-> 50,
                          total_equity |-> 50, total_revenue |-> 0,
                          total_expenses |-> 0, net_income |-> 0]

\* The account type of an identifier as the typing rule is stated: by the
\* leading digit (1 asset, 2 liability, 3 equity, 4 revenue, 5-9 expense),
\* otherwise by keyword (cash/receivable/inventory asset; payable/loan
\* liability; equity/capital equity; revenue/sales/income revenue), and
\* expense when none of these keywords occurs.
StatedAccountType(identifier) ==
    LET Occurs(terms) == \E i \in 1..Len(identifier) : identifier[i] \in terms
        first == IF identifier = <<>> THEN "" ELSE identifier[1]
    IN  IF first = "1" THEN "asset"
        ELSE IF first = "2" THEN "liability"
        ELSE IF first = "3" THEN "equity"
        ELSE IF first = "4" THEN "revenue"
        ELSE IF first \in {"5", "6", "7", "8", "9"} THEN "expense"
        ELSE IF Occurs({"cash", "receivable", "inventory"}) THEN "asset"
        ELSE IF Occurs({"payable", "loan"}) THEN "liability"
        ELSE IF Occurs({"equity", "capital"}) THEN "equity"
        ELSE IF Occurs({"revenue", "sales", "income"}) THEN "revenue"
        ELSE "expense"

\* C26: for every account identifier and every non-zero amount the unpivoter
\* emits a row in which exactly one of debit and credit is positive and is
\* |amount|: on the account's normal side (debit for asset and expense,
\* credit for liability, equity and revenue) when the amount is positive,
\* on the other side when it is negative.
UnpivotSplitsByNormalSide ==
    response.kind = "unpivot" =>
        \A i \in 1..Len(response.statement), p \in Periods :
            LET account == response.statement[i].account_number
                cell == response.statement[i].amounts[p]
                amount == cell[1]
                credit_normal == StatedAccountType(account)
                                    \in {"liability", "equity", "revenue"}
                on_credit == (credit_normal /\ amount > 0)
                                \/ (~credit_normal /\ amount < 0)
            IN  (cell # None /\ amount # 0) =>
                    /\ \E k \in 1..Len(response.rows) :
                           /\ response.rows[k].account_number = account
                           /\ response.rows[k].reference = p
                    /\ \A k \in 1..Len(response.rows) :
                           (/\ response.rows[k].account_number = account
                            /\ response.rows[k].reference = p
                            /\ \A j \in 1..Len(response.statement) :
                                   response.statement[j].account_number = account
                                       => j = i)
                           => /\ response.rows[k].credit
                                    = (IF on_credit THEN Abs(amount) ELSE 0)
                              /\ response.rows[k].debit
                                    = (IF on_credit THEN 0 ELSE Abs(amount))

\* C27: infer_account_type_from_number gives every identifier one of the
\* five account types, the one the typing rule states for it.
TypeInferenceAsStated ==
    response.kind = "account_type" =>
        /\ response.account_type \in AccountType
        /\ response.account_type = StatedAccountType(response.account_number)

\* C28: validate_dataframe returns at least one error for each row whose
\* date or account identifier is missing, whose debit or credit is negative,
\* or whose debit and credit are both zero or both positive, and no error
\* for a row with none of these defects.
DefectiveRowsReported ==
    response.kind = "validation" =>
        \A i \in 1..Len(response.file.rows) :
            LET columns == response.file.columns
                row == response.file.rows[i]
                debit == NumberOrZero(row.debit)
                credit == NumberOrZero(row.credit)
                defective ==
                    \/ "date" \notin columns \/ row.date = None
                    \/ "account_number" \notin columns \/ row.account_number = None
                    \/ /\ {"debit", "credit"} \subseteq columns
                       /\ \/ debit < 0 \/ credit < 0
                          \/ debit = 0 /\ credit = 0
                          \/ debit > 0 /\ credit > 0
            IN  defective <=> (\E e \in response.errors : e[1] = i)

EachFieldAssignedOnce ==
    response.kind = "columns" =>
        \A c, d \in DOMAIN response.final_mapping :
            response.final_mapping[c] = response.final_mapping[d] => c = d

====
